---- MODULE Spec2Model ----
(***************************************************************************)
(* Model of mdx_graphviz.py: the Markdown block processor that turns a     *)
(* fenced Graphviz block into an inline SVG image, and run_graphviz, the   *)
(* wrapper around the external Graphviz program.                           *)
(*                                                                         *)
(* Text (Python str) and byte strings are sequences of integers: code      *)
(* points for str, values 0..255 for bytes.  The literals of the source    *)
(* are spelled as code points, with the literal in a comment.              *)
(***************************************************************************)
EXTENDS Integers, Sequences, FiniteSets, TLC

VARIABLES config, osname, installed, blocks, parent, testResult, pc, frame,
          procs, raised

vars == <<config, osname, installed, blocks, parent, testResult, pc, frame,
          procs, raised>>

(***************************************************************************)
(* Bounds of the model.                                                    *)
(***************************************************************************)
\* longest pending queue of the queue family of initial states
MaxBlocks == 2
\* longest block text of the fence family of initial states
MaxBlockLen == 5
\* longest output of the external program in the bytes family
MaxOutLen == 3

(***************************************************************************)
(* Generic helpers on sequences.                                           *)
(***************************************************************************)
SeqsUpTo(S, n) == UNION {[1..k -> S] : k \in 0..n}

Last(s) == s[Len(s)]

\* index of the first occurrence of c in s at or after i, Len(s)+1 if none
RECURSIVE IndexFrom(_, _, _)
IndexFrom(s, c, i) ==
    IF i > Len(s) THEN Len(s) + 1
    ELSE IF s[i] = c THEN i
    ELSE IndexFrom(s, c, i + 1)

(***************************************************************************)
(* Python str methods used by the processor.                               *)
(***************************************************************************)
\* str.startswith (prefix): exact comparison of the leading characters
startswith(s, prefix) ==
    /\ Len(prefix) <= Len(s)
    /\ SubSeq(s, 1, Len(prefix)) = prefix

\* str.split ('\n'): the pieces between the newlines, at least one piece
RECURSIVE split_lines(_)
split_lines(s) ==
    LET i == IndexFrom(s, 10, 1)
    IN  IF i > Len(s) THEN <<s>>
        ELSE <<SubSeq(s, 1, i - 1)>> \o split_lines(SubSeq(s, i + 1, Len(s)))

\* '\n'.join (pieces)
RECURSIVE join_lines(_)
join_lines(pieces) ==
    IF pieces = <<>> THEN <<>>
    ELSE IF Len(pieces) = 1 THEN pieces[1]
    ELSE pieces[1] \o <<10>> \o join_lines(Tail(pieces))

\* str.encode ('utf-8') of one code point
utf8_encode_char(c) ==
    IF c < 128 THEN <<c>>
    ELSE IF c < 2048 THEN <<192 + (c \div 64), 128 + (c % 64)>>
    ELSE IF c < 65536
         THEN <<224 + (c \div 4096), 128 + ((c \div 64) % 64), 128 + (c % 64)>>
    ELSE <<240 + (c \div 262144), 128 + ((c \div 4096) % 64),
           128 + ((c \div 64) % 64), 128 + (c % 64)>>

\* code.encode ('utf-8')
RECURSIVE utf8_encode(_)
utf8_encode(s) ==
    IF s = <<>> THEN <<>>
    ELSE utf8_encode_char(Head(s)) \o utf8_encode(Tail(s))

IsCont(b) == b >= 128 /\ b <= 191

\* number of bytes of the well-formed UTF-8 sequence starting at bs[i],
\* 0 when the bytes at i are not well-formed UTF-8
Utf8SeqLen(bs, i) ==
    LET b  == bs[i]
        n  == Len(bs)
        c1 == IF i + 1 <= n THEN bs[i + 1] ELSE 0
        c2 == IF i + 2 <= n THEN bs[i + 2] ELSE 0
        c3 == IF i + 3 <= n THEN bs[i + 3] ELSE 0
    IN  IF b < 128 THEN 1
        ELSE IF b >= 194 /\ b <= 223
             THEN IF IsCont(c1) THEN 2 ELSE 0
        ELSE IF b >= 224 /\ b <= 239
             THEN IF /\ IsCont(c1) /\ IsCont(c2)
                     /\ (b = 224 => c1 >= 160)
                     /\ (b = 237 => c1 <= 159)
                  THEN 3 ELSE 0
        ELSE IF b >= 240 /\ b <= 244
             THEN IF /\ IsCont(c1) /\ IsCont(c2) /\ IsCont(c3)
                     /\ (b = 240 => c1 >= 144)
                     /\ (b = 244 => c1 <= 143)
                  THEN 4 ELSE 0
        ELSE 0

Utf8CodePoint(bs, i, n) ==
    IF n = 1 THEN bs[i]
    ELSE IF n = 2 THEN (bs[i] - 192) * 64 + (bs[i + 1] - 128)
    ELSE IF n = 3
         THEN (bs[i] - 224) * 4096 + (bs[i + 1] - 128) * 64 + (bs[i + 2] - 128)
    ELSE (bs[i] - 240) * 262144 + (bs[i + 1] - 128) * 4096
         + (bs[i + 2] - 128) * 64 + (bs[i + 3] - 128)

\* bytes.decode ('utf-8'): [ok |-> TRUE, text |-> code points], or
\* [ok |-> FALSE, ...] where Python raises UnicodeDecodeError
RECURSIVE utf8_decode_from(_, _)
utf8_decode_from(bs, i) ==
    IF i > Len(bs) THEN [ok |-> TRUE, text |-> <<>>]
    ELSE LET n == Utf8SeqLen(bs, i)
         IN  IF n = 0 THEN [ok |-> FALSE, text |-> <<>>]
             ELSE LET rest == utf8_decode_from(bs, i + n)
                  IN  [ok   |-> rest.ok,
                       text |-> IF rest.ok
                                THEN <<Utf8CodePoint(bs, i, n)>> \o rest.text
                                ELSE <<>>]

utf8_decode(bs) == utf8_decode_from(bs, 1)

(***************************************************************************)
(* base64.b64encode (output).decode ('ascii')                              *)
(***************************************************************************)
\* the character of the standard base64 alphabet for the 6-bit value i
B64Char(i) ==
    IF i < 26 THEN 65 + i
    ELSE IF i < 52 THEN 97 + (i - 26)
    ELSE IF i < 62 THEN 48 + (i - 52)
    ELSE IF i = 62 THEN 43
    ELSE 47

\* b64encode with the last group of a single byte not shifted into place
RECURSIVE b64encode_unshifted(_)
b64encode_unshifted(bs) ==
    IF bs = <<>> THEN <<>>
    ELSE IF Len(bs) = 1
         THEN <<B64Char(bs[1] \div 4), B64Char(bs[1] % 4), 61, 61>>
    ELSE IF Len(bs) = 2
         THEN <<B64Char(bs[1] \div 4),
                B64Char((bs[1] % 4) * 16 + (bs[2] \div 16)),
                B64Char((bs[2] % 16) * 4), 61>>
    ELSE <<B64Char(bs[1] \div 4),
           B64Char((bs[1] % 4) * 16 + (bs[2] \div 16)),
           B64Char((bs[2] % 16) * 4 + (bs[3] \div 64)),
           B64Char(bs[3] % 64)>> \o b64encode_unshifted(SubSeq(bs, 4, Len(bs)))

RECURSIVE b64encode(_)
b64encode(bs) ==
    IF bs = <<>> THEN <<>>
    ELSE IF Len(bs) = 1
         THEN <<B64Char(bs[1] \div 4), B64Char((bs[1] % 4) * 16), 61, 61>>
    ELSE IF Len(bs) = 2
         THEN <<B64Char(bs[1] \div 4),
                B64Char((bs[1] % 4) * 16 + (bs[2] \div 16)),
                B64Char((bs[2] % 16) * 4), 61>>
    ELSE <<B64Char(bs[1] \div 4),
           B64Char((bs[1] % 4) * 16 + (bs[2] \div 16)),
           B64Char((bs[2] % 16) * 4 + (bs[3] \div 64)),
           B64Char(bs[3] % 64)>> \o b64encode(SubSeq(bs, 4, Len(bs)))

\* bytes.decode ('ascii'): every byte below 128 is the code point itself
ascii_decode(bs) == [i \in 1..Len(bs) |-> bs[i]]

(***************************************************************************)
(* re.match ('^%s\s+([^\s]+)' % block_start, line)                          *)
(*                                                                         *)
(* The marker is pasted into the pattern as it is, so it is read as a      *)
(* regular expression.  The model reads the markers it draws (characters   *)
(* of BlockChars): '+' is the repetition operator, every other character   *)
(* of BlockChars stands for itself.                                        *)
(***************************************************************************)
\* the characters \s matches in a str pattern
IsSpace(c) ==
    c \in (9..13) \cup (28..32) \cup {133, 160, 5760} \cup (8192..8202)
          \cup {8232, 8233, 8239, 8287, 12288}

\* sre_parse on the marker part: a sequence of atoms [ch, plus]; ok is FALSE
\* where re.compile raises re.error ('+' with nothing to repeat, or a
\* repetition of a repetition)
RECURSIVE ParseAtoms(_, _)
ParseAtoms(m, i) ==
    IF i > Len(m) THEN [ok |-> TRUE, atoms |-> <<>>]
    ELSE IF m[i] = 43 THEN [ok |-> FALSE, atoms |-> <<>>]
    ELSE LET plus == i < Len(m) /\ m[i + 1] = 43
             rest == ParseAtoms(m, IF plus THEN i + 2 ELSE i + 1)
         IN  [ok    |-> rest.ok,
              atoms |-> IF rest.ok
                        THEN <<[ch |-> m[i], plus |-> plus]>> \o rest.atoms
                        ELSE <<>>]

\* number of consecutive characters of line from j on that are equal to c
RECURSIVE CharRun(_, _, _)
CharRun(line, j, c) ==
    IF j <= Len(line) /\ line[j] = c THEN 1 + CharRun(line, j + 1, c) ELSE 0

\* number of consecutive whitespace (sp = TRUE) or non-whitespace
\* (sp = FALSE) characters of line from j on
RECURSIVE ClassRun(_, _, _)
ClassRun(line, j, sp) ==
    IF j <= Len(line) /\ (IsSpace(line[j]) <=> sp)
    THEN 1 + ClassRun(line, j + 1, sp) ELSE 0

\* \s+([^\s]+) at position j: the span <<first, last>> of group 1, or <<>>.
\* Both repetitions are greedy; giving back whitespace never helps, because
\* the character given back is not matched by [^\s].
FenceTail(line, j) ==
    LET ws  == ClassRun(line, j, TRUE)
        tok == ClassRun(line, j + ws, FALSE)
    IN  IF ws >= 1 /\ tok >= 1 THEN <<j + ws, j + ws + tok - 1>> ELSE <<>>

\* the backtracking matcher on the atoms of the marker, then the tail
RECURSIVE MatchAtoms(_, _, _, _), TryRepeat(_, _, _, _, _)
MatchAtoms(atoms, k, line, j) ==
    IF k > Len(atoms) THEN FenceTail(line, j)
    ELSE IF ~atoms[k].plus
         THEN IF j <= Len(line) /\ line[j] = atoms[k].ch
              THEN MatchAtoms(atoms, k + 1, line, j + 1)
              ELSE <<>>
    ELSE TryRepeat(atoms, k, line, j, CharRun(line, j, atoms[k].ch))

\* greedy x+: the longest repetition first, then one less, down to one
TryRepeat(atoms, k, line, j, n) ==
    IF n < 1 THEN <<>>
    ELSE LET r == MatchAtoms(atoms, k + 1, line, j + n)
         IN  IF r # <<>> THEN r ELSE TryRepeat(atoms, k, line, j, n - 1)

\* re.match of the fence pattern built from block_start against line:
\* error (re.error raised), or matched with group (1)
re_match(block_start, line) ==
    LET p == ParseAtoms(block_start, 1)
        g == IF p.ok THEN MatchAtoms(p.atoms, 1, line, 1) ELSE <<>>
    IN  [error   |-> ~p.ok,
         matched |-> p.ok /\ g # <<>>,
         group1  |-> IF p.ok /\ g # <<>> THEN SubSeq(line, g[1], g[2])
                     ELSE <<>>]

(***************************************************************************)
(* Literals of the source.                                                 *)
(***************************************************************************)
\* 'svg', the format run passes
FormatSvg == <<115, 118, 103>>
\* '-T'
DashT == <<45, 84>>
\* 'dot exited with error:\n[stderr]\n'
ErrorPrefix == <<100, 111, 116, 32, 101, 120, 105, 116, 101, 100, 32, 119, 105, 116, 104, 32, 101, 114, 114, 111, 114, 58, 10, 91, 115, 116, 100, 101, 114, 114, 93, 10>>
\* 'data:image/svg+xml;base64,'
DataUriPrefix == <<100, 97, 116, 97, 58, 105, 109, 97, 103, 101, 47, 115, 118, 103, 43, 120, 109, 108, 59, 98, 97, 115, 101, 54, 52, 44>>
\* creationflags = 0x08000000
CREATE_NO_WINDOW == 134217728

\* the names bound when the handler of run_graphviz looks them up: the
\* imports of the module and of the function, and the module's definitions
BoundNames ==
    {"Extension", "BlockProcessor", "etree", "re", "base64", "os", "Popen",
     "PIPE", "run_graphviz", "GraphvizProcessor", "GraphvizExtension"}

NoException == [type |-> "none", msg |-> <<>>]
Exception(t, m) == [type |-> t, msg |-> m]

(***************************************************************************)
(* run_graphviz                                                            *)
(***************************************************************************)
\* dot_args = [program] + options + ['-T', format]
dot_args(program, options, format) == <<program>> \o options \o <<DashT, format>>

\* the child process Popen creates; on 'nt' with the no-window flag
Popen(osname_, args, code) ==
    [args          |-> args,
     creationflags |-> IF osname_ = "nt" THEN CREATE_NO_WINDOW ELSE 0,
     stdin         |-> utf8_encode(code),
     status        |-> "running"]

\* run_graphviz from the try statement on.  comm is what p.communicate did:
\* errno "none" when it returned (the process has exited, with stdout,
\* stderr and returncode), or the errno of the OSError the write raised
\* (alive: the process is still running then; stdout, stderr and
\* returncode are then what the process leaves to be read and waited for).
\* The result: the exception raised or the value returned, and whether the
\* process has been waited for.
run_graphviz_finish(osname_, comm) ==
    LET \* wentwrong = False is in the else branch of the platform test
        wentwrong0 == IF osname_ = "nt" THEN "unbound" ELSE "False"
        \* except (OSError, IOError) as err: if err.errno != EPIPE: raise
        handler ==
            IF comm.errno = "none"
            THEN [exc |-> NoException, wentwrong |-> wentwrong0]
            ELSE IF "EPIPE" \notin BoundNames
                 THEN [exc |-> Exception("NameError", <<>>),
                       wentwrong |-> wentwrong0]
            ELSE IF comm.errno # "EPIPE"
                 THEN [exc |-> Exception("OSError", <<>>),
                       wentwrong |-> wentwrong0]
            ELSE [exc |-> NoException, wentwrong |-> "True"]
        waited == comm.errno = "none" \/ handler.wentwrong = "True"
        errmsg == utf8_decode(comm.stderr)
    IN  IF handler.exc # NoException
        THEN [exc |-> handler.exc, value |-> <<>>, waited |-> FALSE]
        ELSE IF handler.wentwrong = "unbound"
             \* if wentwrong: the local has no value
             THEN [exc |-> Exception("UnboundLocalError", <<>>),
                   value |-> <<>>, waited |-> waited]
        ELSE IF comm.returncode # 0
             THEN IF errmsg.ok
                  THEN [exc |-> Exception("RuntimeError",
                                          ErrorPrefix \o errmsg.text),
                        value |-> <<>>, waited |-> waited]
                  ELSE [exc |-> Exception("UnicodeDecodeError", <<>>),
                        value |-> <<>>, waited |-> waited]
        ELSE [exc |-> NoException, value |-> comm.stdout, waited |-> waited]

(***************************************************************************)
(* GraphvizProcessor                                                       *)
(***************************************************************************)
\* test comparing without regard to case
Lower(c) == IF c >= 65 /\ c <= 90 THEN c + 32 ELSE c
test_ignorecase(parent_, block) ==
    startswith([i \in 1..Len(block) |-> Lower(block[i])],
               [i \in 1..Len(config.block_start) |->
                    Lower(config.block_start[i])])

\* GraphvizProcessor.test
test(parent_, block) == startswith(block, config.block_start)

\* blocks.pop (): the last item instead of the first
pop_last(q) == [item |-> Last(q), rest |-> SubSeq(q, 1, Len(q) - 1)]

\* blocks.pop (0): the item removed and the list left
pop0(q) == [item |-> Head(q), rest |-> Tail(q)]

\* the first line of the block matched against the fence pattern, and the
\* program and code run takes from it
parse_block(block_start, block) ==
    LET lines == split_lines(block)
        m     == re_match(block_start, lines[1])
    IN  [error   |-> m.error,
         matched |-> m.matched,
         program |-> m.group1,
         code    |-> IF m.matched THEN join_lines(Tail(lines)) ELSE <<>>]

\* the element run builds for the output of the program
image_element(cfg, output) ==
    [tag      |-> cfg.html_element,
     class    |-> cfg.image_class,
     children |-> <<[tag |-> "img",
                     src |-> DataUriPrefix \o ascii_decode(b64encode(output))]>>]

\* etree.SubElement (parent, ...): the new element is the last child
SubElement(parent_, elt) == Append(parent_, elt)

\* p.communicate has not ended
NoComm ==
    [errno |-> "pending", stdout |-> <<>>, stderr |-> <<>>, returncode |-> 0,
     alive |-> TRUE]

\* the locals of the last call of run: the block popped, the match, what
\* p.communicate did, and the output run_graphviz returned
NoFrame ==
    [called |-> FALSE, block |-> <<>>, matched |-> FALSE, program |-> <<>>,
     code |-> <<>>, comm |-> NoComm, output |-> <<>>]

(***************************************************************************)
(* Initial states.  Three families of inputs share the actions: pending    *)
(* queues of sample blocks under every configuration, one block of any     *)
(* text, and one matching block with any output of the program.            *)
(***************************************************************************)
\* tab, '\n', ' ', '+', 'A', 'a'
BlockChars == {9, 10, 32, 43, 65, 97}

\* the block-start markers drawn: 'a', 'aa', 'a+', '+'
Markers == {<<97>>, <<97, 97>>, <<97, 43>>, <<43>>}

\* 'a a\na', 'a', 'a+ +', '+', 'A a'
SampleBlocks ==
    {<<97, 32, 97, 10, 97>>, <<97>>, <<97, 43, 32, 43>>, <<43>>,
     <<65, 32, 97>>}

OutBytes == {0, 65, 255}

\* what the program may do in the first two families: outputs with a null
\* byte and a non-UTF-8 byte; error text 'A', 'e-acute', and bytes that
\* are no UTF-8
SampleResults ==
    [stdout     : {<<>>, <<0, 255>>},
     stderr     : {<<65>>, <<195, 169>>, <<255>>},
     returncode : {0, 1}]

Configs ==
    [block_start  : Markers,
     html_element : {"div", "span"},
     image_class  : {"graphviz"}]

InitCommon ==
    /\ parent = <<>>
    /\ testResult = "none"
    /\ pc = "idle"
    /\ frame = NoFrame
    /\ procs = <<>>
    /\ raised = NoException

InitQueue ==
    /\ config \in Configs
    /\ osname \in {"posix", "nt"}
    /\ installed = SampleResults
    /\ blocks \in SeqsUpTo(SampleBlocks, MaxBlocks)
    /\ InitCommon

InitFence ==
    /\ config \in [block_start : Markers, html_element : {"div"},
                   image_class : {"graphviz"}]
    /\ osname = "posix"
    /\ installed = [stdout : {<<0, 255>>}, stderr : {<<65>>},
                    returncode : {0, 1}]
    /\ \E b \in SeqsUpTo(BlockChars, MaxBlockLen) : blocks = <<b>>
    /\ InitCommon

InitBytes ==
    /\ config = [block_start |-> <<97>>, html_element |-> "div",
                 image_class |-> "graphviz"]
    /\ osname = "posix"
    /\ installed = [stdout : SeqsUpTo(OutBytes, MaxOutLen), stderr : {<<>>},
                    returncode : {0}]
    /\ blocks = <<<<97, 32, 97, 10, 97>>>>
    /\ InitCommon

Init == InitQueue \/ InitFence \/ InitBytes

(***************************************************************************)
(* Actions.                                                                *)
(***************************************************************************)
\* the parser asks the processor whether the first pending block is its
Test ==
    /\ pc = "idle"
    /\ blocks # <<>>
    /\ testResult = "none"
    /\ testResult' = IF test(parent, blocks[1]) THEN "true" ELSE "false"
    /\ UNCHANGED <<config, osname, installed, blocks, parent, pc, frame,
                   procs, raised>>

\* GraphvizProcessor.run up to the blocking p.communicate of run_graphviz;
\* the parser calls run for a block test has accepted
RunEnter ==
    /\ pc = "idle"
    /\ blocks # <<>>
    /\ testResult = "true"
    /\ LET popped == pop0(blocks)
           block  == popped.item
           m      == parse_block(config.block_start, block)
       IN  /\ blocks' = popped.rest
           /\ testResult' = "none"
           /\ frame' = [called |-> TRUE, block |-> block,
                        matched |-> m.matched, program |-> m.program,
                        code |-> m.code, comm |-> NoComm, output |-> <<>>]
           /\ IF m.error
              THEN /\ pc' = "aborted"
                   /\ raised' = Exception("re.error", <<>>)
                   /\ UNCHANGED procs
              ELSE IF ~m.matched
              THEN /\ pc' = "idle"
                   /\ UNCHANGED <<procs, raised>>
              ELSE /\ pc' = "communicate"
                   /\ procs' = Append(procs,
                          Popen(osname, dot_args(m.program, <<>>, FormatSvg),
                                m.code))
                   /\ UNCHANGED raised
    /\ UNCHANGED <<config, osname, installed, parent>>

\* p.communicate ends, the rest of run_graphviz, and the rest of run
RunComplete ==
    /\ pc = "communicate"
    /\ \E res \in installed, errno \in {"none", "EPIPE", "EINVAL"},
          alive \in BOOLEAN :
         /\ errno = "none" => ~alive
         /\ LET comm == [errno |-> errno, stdout |-> res.stdout,
                         stderr |-> res.stderr,
                         returncode |-> res.returncode, alive |-> alive]
                out  == run_graphviz_finish(osname, comm)
            IN  /\ procs' = [procs EXCEPT ![Len(procs)].status =
                                IF out.waited \/ ~alive THEN "exited"
                                ELSE "running"]
                /\ IF out.exc = NoException
                   THEN /\ frame' = [frame EXCEPT !.comm = comm,
                                                  !.output = out.value]
                        /\ parent' = SubElement(parent,
                                        image_element(config, out.value))
                        /\ pc' = "idle"
                        /\ UNCHANGED raised
                   ELSE /\ raised' = out.exc
                        /\ pc' = "aborted"
                        /\ frame' = [frame EXCEPT !.comm = comm]
                        /\ UNCHANGED parent
    /\ UNCHANGED <<config, osname, installed, blocks, testResult>>

Next == Test \/ RunEnter \/ RunComplete

Spec == Init /\ [][Next]_vars

(***************************************************************************)
(* Properties.                                                             *)
(***************************************************************************)
\* the steps: a call of test, a call of run, the end of p.communicate
TestCall == testResult = "none" /\ testResult' # "none"
RunCall == testResult = "true" /\ testResult' = "none"
Completion == pc = "communicate" /\ pc' # "communicate"

EndsWith(s, t) ==
    Len(t) <= Len(s) /\ SubSeq(s, Len(s) - Len(t) + 1, Len(s)) = t

\* the text of the block before, and after, its first newline
FirstLineOf(block) == SubSeq(block, 1, IndexFrom(block, 10, 1) - 1)
RestOf(block) == SubSeq(block, IndexFrom(block, 10, 1) + 1, Len(block))

\* the marker as a literal prefix of the text
LiteralPrefix(marker, text) ==
    /\ Len(marker) <= Len(text)
    /\ \A i \in 1..Len(marker) : text[i] = marker[i]

\* the program tokens of a line of the form marker, whitespace, token, with
\* the marker taken literally: no token, or the one maximal token
FenceTokens(marker, line) ==
    {SubSeq(line, i, j) : <<i, j>> \in
        {ij \in (1..Len(line)) \X (1..Len(line)) :
            /\ LiteralPrefix(marker, line)
            /\ Len(marker) + 1 < ij[1] /\ ij[1] <= ij[2]
            /\ \A k \in (Len(marker) + 1)..(ij[1] - 1) : IsSpace(line[k])
            /\ \A k \in ij[1]..ij[2] : ~IsSpace(line[k])
            /\ (ij[2] < Len(line) => IsSpace(line[ij[2] + 1]))}}

\* base64 decoding, <<-1>> for text that is no base64
B64Val(c) ==
    IF c >= 65 /\ c <= 90 THEN c - 65
    ELSE IF c >= 97 /\ c <= 122 THEN c - 71
    ELSE IF c >= 48 /\ c <= 57 THEN c + 4
    ELSE IF c = 43 THEN 62
    ELSE IF c = 47 THEN 63
    ELSE -1

RECURSIVE b64decode(_)
b64decode(cs) ==
    IF cs = <<>> THEN <<>>
    ELSE IF Len(cs) < 4 \/ B64Val(cs[1]) < 0 \/ B64Val(cs[2]) < 0 THEN <<-1>>
    ELSE LET a == B64Val(cs[1])
             b == B64Val(cs[2])
             c == B64Val(cs[3])
             d == B64Val(cs[4])
         IN  IF cs[3] = 61
             THEN IF cs[4] = 61 /\ Len(cs) = 4 /\ b % 16 = 0
                  THEN <<a * 4 + (b \div 16)>> ELSE <<-1>>
             ELSE IF c < 0 THEN <<-1>>
             ELSE IF cs[4] = 61
             THEN IF Len(cs) = 4 /\ c % 4 = 0
                  THEN <<a * 4 + (b \div 16), (b % 16) * 16 + (c \div 4)>>
                  ELSE <<-1>>
             ELSE IF d < 0 THEN <<-1>>
             ELSE <<a * 4 + (b \div 16), (b % 16) * 16 + (c \div 4),
                    (c % 4) * 64 + d>> \o b64decode(SubSeq(cs, 5, Len(cs)))

\* ' exited with error:\n[stderr]\n'
ExitedWithError == <<32, 101, 120, 105, 116, 101, 100, 32, 119, 105, 116, 104, 32, 101, 114, 114, 111, 114, 58, 10, 91, 115, 116, 100, 101, 114, 114, 93, 10>>

\* the step of C1
C1_Step ==
    /\ RunCall => /\ blocks # <<>>
                  /\ frame'.called /\ frame'.block = Head(blocks)
                  /\ blocks' = Tail(blocks)
                  /\ Len(blocks') = Len(blocks) - 1
    /\ ~RunCall => blocks' = blocks

\* C1: every call of run removes exactly the head of the pending queue, in
\* every outcome, leaves the other blocks as they are and in order, and
\* nothing else changes the queue: the queue shrinks by one per call.
C1_RunPopsHeadOnce == [][C1_Step]_vars

\* C1 witness: run failed with the renderer's error, its block is gone and
\* the block behind it is still pending
C1_Witness ==
    /\ pc = "aborted" /\ raised.type = "RuntimeError"
    /\ frame.block = <<97, 32, 97, 10, 97>>
    /\ blocks = <<<<97>>>>

\* the step of C2
C2_Step ==
    (Completion /\ pc' = "idle") =>
        LET B   == frame'.output
            elt == Last(parent')
            src == elt.children[1].src
            payload == SubSeq(src, Len(DataUriPrefix) + 1, Len(src))
        IN  /\ B = frame'.comm.stdout
            /\ Len(parent') = Len(parent) + 1
            /\ SubSeq(parent', 1, Len(parent)) = parent
            /\ elt.tag = config.html_element
            /\ elt.class = config.image_class
            /\ Len(elt.children) = 1
            /\ elt.children[1].tag = "img"
            /\ LiteralPrefix(DataUriPrefix, src)
            /\ Len(payload) = 4 * ((Len(B) + 2) \div 3)
            /\ b64decode(payload) = B

\* C2: when run_graphviz returns the bytes B to run, run appends one element
\* as the last child of parent, with the configured tag and class and one
\* img child whose src is the data URI prefix followed by the base64 text
\* of B, which decodes to exactly B.
C2_AppendsDataUri == [][C2_Step]_vars

\* C2 witness: a second image was appended behind the first, for an output
\* with a null byte and a byte that is no UTF-8
C2_Witness ==
    /\ pc = "idle" /\ Len(parent) = 2
    /\ frame.output = <<0, 255>>
    /\ parent[2].children[1].src = DataUriPrefix \o <<65, 80, 56, 61>>

\* the step of C3
C3_Step ==
    (/\ Completion
     /\ frame'.comm.errno = "none"
     /\ frame'.comm.returncode # 0
     /\ utf8_decode(frame'.comm.stderr).ok) =>
        /\ pc' = "aborted"
        /\ raised'.type = "RuntimeError"
        /\ EndsWith(raised'.msg, utf8_decode(frame'.comm.stderr).text)
        /\ parent' = parent

\* C3: when the program exits with a nonzero status (p.communicate returned
\* and the error stream is UTF-8), run_graphviz raises an error carrying
\* the decoded error text, run lets it through, and parent is as before.
C3_NonzeroExitRaisesStderr == [][C3_Step]_vars

\* the step of C4
C4_Step ==
    (Completion /\ frame'.comm.errno = "EPIPE") =>
        /\ Last(procs').status = "exited"
        /\ frame'.comm.returncode = 0 =>
              /\ pc' = "idle"
              /\ frame'.output = frame'.comm.stdout
        /\ (frame'.comm.returncode # 0
            /\ utf8_decode(frame'.comm.stderr).ok) =>
              /\ pc' = "aborted"
              /\ raised'.type = "RuntimeError"

\* C4: when the write to the process fails with a broken pipe, run_graphviz
\* reads the streams, waits for the process and decides by the exit status
\* alone: the output on status zero, the exited-with-error failure on a
\* nonzero status.
C4_BrokenPipeFallsBack == [][C4_Step]_vars

\* C5: the message of the exited-with-error failure is the program that was
\* run, then ' exited with error:\n[stderr]\n', then the decoded error text.
C5_MessageNamesProgram ==
    raised.type = "RuntimeError" =>
        raised.msg = frame.program \o ExitedWithError
                     \o utf8_decode(frame.comm.stderr).text

\* the step of C6
C6_Step ==
    (RunCall /\ FenceTokens(config.block_start, FirstLineOf(Head(blocks))) = {})
        => /\ pc' = "idle"
           /\ raised' = NoException
           /\ parent' = parent
           /\ procs' = procs
           /\ blocks' = Tail(blocks)

\* C6: when the first line of the block handed to run is not the marker,
\* whitespace and a program token, run returns without an error, appends
\* nothing, spawns nothing; only the block has left the queue.
C6_NoMatchIsSilent == [][C6_Step]_vars

\* the step of C7
C7_Step ==
    /\ RunCall =>
          Len(procs') = Len(procs)
              + (IF parse_block(config.block_start, Head(blocks)).matched
                 THEN 1 ELSE 0)
    /\ ~RunCall => Len(procs') = Len(procs)
    /\ pc' # "communicate" =>
          \A i \in 1..Len(procs') : procs'[i].status = "exited"
    /\ Cardinality({i \in 1..Len(procs') : procs'[i].status = "running"}) <= 1

\* C7: a call spawns one process for a matched block and none otherwise,
\* never a second one, and when run has returned or raised no process is
\* running; at most one process runs at any time.
C7_OneProcessWaitedFor == [][C7_Step]_vars

\* the step of C8
C8_Step ==
    TestCall =>
        /\ (testResult' = "true") <=> LiteralPrefix(config.block_start, blocks[1])
        /\ UNCHANGED <<config, blocks, parent, procs, frame, pc, raised>>

\* C8: test is true exactly when the block begins with the marker as a
\* literal, case-sensitive string, and test changes nothing: not the queue,
\* not a block, not the output tree.
C8_TestIsLiteralPrefix == [][C8_Step]_vars

\* C8 witness: test has refused a block that differs from the marker only
\* by case, and the block is still the head of the queue
C8_Witness ==
    /\ testResult = "false"
    /\ config.block_start = <<97>>
    /\ blocks # <<>> /\ blocks[1] = <<65, 32, 97>>

\* the step of C9
C9_Step ==
    RunCall =>
        LET block  == Head(blocks)
            tokens == FenceTokens(config.block_start, FirstLineOf(block))
        IN  /\ \A T \in tokens :
                  /\ Len(procs') = Len(procs) + 1
                  /\ Last(procs').args = <<T, DashT, FormatSvg>>
                  /\ frame'.program = T
                  /\ frame'.code = RestOf(block)
            /\ tokens = {} => procs' = procs

\* C9: with the marker taken as a literal string, a block whose first line
\* is the marker, whitespace and a token T makes run call run_graphviz with
\* program T, no extra arguments, format svg and the text after the first
\* newline as the body; any other block causes no call.
C9_LiteralMarkerInvocation == [][C9_Step]_vars

\* the step of C10
C10_Step ==
    (/\ Completion
     /\ frame'.comm.errno = "none"
     /\ utf8_decode(frame'.comm.stderr).ok) =>
        /\ frame'.comm.returncode = 0 =>
              /\ pc' = "idle" /\ raised' = NoException
              /\ frame'.output = frame'.comm.stdout
        /\ frame'.comm.returncode # 0 =>
              /\ pc' = "aborted" /\ raised'.type = "RuntimeError"

\* C10: without a write error and with an error stream that is UTF-8, the
\* outcome does not depend on the platform: the output bytes on status
\* zero, the exited-with-error failure on a nonzero status, no other error.
C10_PlatformIndependentOutcome == [][C10_Step]_vars

====
